---- MODULE Spec2Model ----
(***************************************************************************)
(* Model of the aggregation and identity-resolution pipeline of the        *)
(* crawler: the Grouper and Aggregate Writer of scrap.py / main.py and the *)
(* Name Canonicalizer and Shark Resolver of sharks.py.                     *)
(*                                                                         *)
(* A Python str is a sequence of characters; a character is a one-letter   *)
(* TLA+ string (or a named atom for the few non-ASCII ones), ordered by    *)
(* code point through the table Alphabet.                                  *)
(***************************************************************************)
EXTENDS Integers, Sequences, FiniteSets, TLC

\* ------------------------------------------------------------------------
\* Characters and Python str operations
\* ------------------------------------------------------------------------

Digits == <<"0", "1", "2", "3", "4", "5", "6", "7", "8", "9">>

Uppers == <<"A", "B", "C", "D", "E", "F", "G", "H", "I", "J", "K", "L", "M",
            "N", "O", "P", "Q", "R", "S", "T", "U", "V", "W", "X", "Y", "Z">>

Lowers == <<"a", "b", "c", "d", "e", "f", "g", "h", "i", "j", "k", "l", "m",
            "n", "o", "p", "q", "r", "s", "t", "u", "v", "w", "x", "y", "z">>

\* The characters of the model in code point order.  DQUOTE is U+0022,
\* BACKTICK is U+0060, ACUTE is U+00B4, A_CIRC is U+00C2, U_ACUTE is U+00DA,
\* a_circ is U+00E2, u_acute is U+00FA.
Alphabet ==
    <<" ", "DQUOTE", "'", ",", "-", ".", "/">> \o Digits \o Uppers
        \o <<"_", "BACKTICK">> \o Lowers
        \o <<"ACUTE", "A_CIRC", "U_ACUTE", "a_circ", "u_acute">>

Chars == {Alphabet[i] : i \in 1..Len(Alphabet)}

\* ord(c)
Code == [c \in Chars |-> CHOOSE i \in 1..Len(Alphabet) : Alphabet[i] = c]

SeqToSet(s) == {s[i] : i \in 1..Len(s)}

AlnumLower == SeqToSet(Lowers) \cup SeqToSet(Digits)

Alnum == AlnumLower \cup SeqToSet(Uppers)

Whitespace == {" "}

CasePairs ==
    {<<Uppers[i], Lowers[i]>> : i \in 1..Len(Uppers)}
        \cup {<<"A_CIRC", "a_circ">>, <<"U_ACUTE", "u_acute">>}

LowerChar == [c \in Chars |->
    IF \E p \in CasePairs : p[1] = c
    THEN (CHOOSE p \in CasePairs : p[1] = c)[2] ELSE c]

UpperChar == [c \in Chars |->
    IF \E p \in CasePairs : p[2] = c
    THEN (CHOOSE p \in CasePairs : p[2] = c)[1] ELSE c]

\* str.lower()
Lower(s) == [i \in 1..Len(s) |-> LowerChar[s[i]]]

\* str.upper()
Upper(s) == [i \in 1..Len(s) |-> UpperChar[s[i]]]

RECURSIVE LStrip(_)
LStrip(s) ==
    IF s = <<>> THEN <<>>
    ELSE IF Head(s) \in Whitespace THEN LStrip(Tail(s)) ELSE s

RECURSIVE RStrip(_)
RStrip(s) ==
    IF s = <<>> THEN <<>>
    ELSE IF s[Len(s)] \in Whitespace THEN RStrip(SubSeq(s, 1, Len(s) - 1)) ELSE s

\* str.strip()
Strip(s) == RStrip(LStrip(s))

\* s < t for Python str (code point order, a proper prefix is smaller)
RECURSIVE StrLess(_, _)
StrLess(s, t) ==
    IF t = <<>> THEN FALSE
    ELSE IF s = <<>> THEN TRUE
    ELSE IF Head(s) = Head(t) THEN StrLess(Tail(s), Tail(t))
    ELSE Code[Head(s)] < Code[Head(t)]

StrLeq(s, t) == s = t \/ StrLess(s, t)

\* s.endswith(suffix)
EndsWith(s, suffix) ==
    /\ Len(s) >= Len(suffix)
    /\ SubSeq(s, Len(s) - Len(suffix) + 1, Len(s)) = suffix

\* The value None of an optional str field (a missing key or a JSON null);
\* NONE is no character of Alphabet, so None is no str.
None == <<"NONE">>

\* (x or default) for an optional str x
StrOr(x, default) == IF x = None \/ x = <<>> THEN default ELSE x

\* ------------------------------------------------------------------------
\* sharks.py: the Name Canonicalizer
\* ------------------------------------------------------------------------

_SUFFIX_STOPWORDS ==
    { <<"i", "n", "c">>,
      <<"i", "n", "c", "o", "r", "p", "o", "r", "a", "t", "e", "d">>,
      <<"c", "o", "r", "p">>,
      <<"c", "o", "r", "p", "o", "r", "a", "t", "i", "o", "n">>,
      <<"c", "o">>,
      <<"c", "o", "m", "p", "a", "n", "y">>,
      <<"l", "t", "d">>,
      <<"l", "t", "d", "a">>,
      <<"p", "l", "c">>,
      <<"l", "l", "c">>,
      <<"l", "p">>,
      <<"l", ".", "p">>,
      <<"s", "a">>,
      <<"s", "/", "a">>,
      <<"h", "o", "l", "d", "i", "n", "g">>,
      <<"h", "o", "l", "d", "i", "n", "g", "s">> }

\* the character class of the first re.sub: the source bytes spell the
\* double quote, the apostrophe, the backtick, U+00C2 and U+00B4
QuoteChars == {"DQUOTE", "'", "BACKTICK", "A_CIRC", "ACUTE"}

\* the first re.sub: the characters of the class are deleted
StripQuotes(s) == SelectSeq(s, LAMBDA c : c \notin QuoteChars)

\* a second re.sub with the class [^a-z0-9./]: the full stop and the slash
\* stay in the tokens
RECURSIVE SubNonAlnumKeepsDots(_)
SubNonAlnumKeepsDots(s) ==
    LET kept == AlnumLower \cup {".", "/"}
    IN  IF s = <<>> THEN <<>>
        ELSE IF Head(s) \in kept THEN <<Head(s)>> \o SubNonAlnumKeepsDots(Tail(s))
        ELSE IF Len(s) > 1 /\ s[2] \notin kept THEN SubNonAlnumKeepsDots(Tail(s))
        ELSE <<" ">> \o SubNonAlnumKeepsDots(Tail(s))

\* the second re.sub: every maximal run outside [a-z0-9] becomes one space
RECURSIVE SubNonAlnum(_)
SubNonAlnum(s) ==
    IF s = <<>> THEN <<>>
    ELSE IF Head(s) \in AlnumLower THEN <<Head(s)>> \o SubNonAlnum(Tail(s))
    ELSE IF Len(s) > 1 /\ s[2] \notin AlnumLower THEN SubNonAlnum(Tail(s))
    ELSE <<" ">> \o SubNonAlnum(Tail(s))

\* the third re.sub: every run of whitespace becomes one space
RECURSIVE CollapseSpaces(_)
CollapseSpaces(s) ==
    IF s = <<>> THEN <<>>
    ELSE IF Head(s) \notin Whitespace THEN <<Head(s)>> \o CollapseSpaces(Tail(s))
    ELSE IF Len(s) > 1 /\ s[2] \in Whitespace THEN CollapseSpaces(Tail(s))
    ELSE <<" ">> \o CollapseSpaces(Tail(s))

\* s.split on one space: the pieces between single spaces, empty pieces included
RECURSIVE SplitSpace(_, _)
SplitSpace(s, cur) ==
    IF s = <<>> THEN <<cur>>
    ELSE IF Head(s) = " " THEN <<cur>> \o SplitSpace(Tail(s), <<>>)
    ELSE SplitSpace(Tail(s), Append(cur, Head(s)))

\* join of the parts with one space
RECURSIVE JoinSpace(_)
JoinSpace(parts) ==
    IF parts = <<>> THEN <<>>
    ELSE IF Len(parts) = 1 THEN parts[1]
    ELSE parts[1] \o <<" ">> \o JoinSpace(Tail(parts))

\* a canonicalizer that forgets to drop the corporate suffixes
KeepSuffixes(tokens) == tokens

\* a canonicalizer that takes off one trailing corporate suffix only
DropTrailingSuffix(tokens) ==
    IF tokens # <<>> /\ tokens[Len(tokens)] \in _SUFFIX_STOPWORDS
    THEN SubSeq(tokens, 1, Len(tokens) - 1)
    ELSE tokens

\* lines 40-44: the tokens that are no corporate suffix
DropSuffixes(tokens) == SelectSeq(tokens, LAMBDA t : t \notin _SUFFIX_STOPWORDS)

\* a canonicalizer without lines 46-47: a name of corporate suffixes only
\* has the empty key
NormalizeNoFallback(name) ==
    LET s0 == Lower(Strip(StrOr(name, <<>>)))
        s1 == Strip(CollapseSpaces(SubNonAlnum(StripQuotes(s0))))
        tokens == SelectSeq(SplitSpace(s1, <<>>), LAMBDA t : t # <<>>)
    IN  IF s0 = <<>> THEN <<>>
        ELSE IF s1 = <<>> THEN <<>>
        ELSE JoinSpace(DropSuffixes(tokens))

_normalize_shark_name(name) ==
    LET s0 == Lower(Strip(StrOr(name, <<>>)))
        s1 == Strip(CollapseSpaces(SubNonAlnum(StripQuotes(s0))))
        tokens == SelectSeq(SplitSpace(s1, <<>>), LAMBDA t : t # <<>>)
        filtered == DropSuffixes(tokens)
    IN  IF s0 = <<>> THEN <<>>
        ELSE IF s1 = <<>> THEN <<>>
        ELSE IF filtered = <<>> THEN tokens[1]
        ELSE JoinSpace(filtered)

\* ------------------------------------------------------------------------
\* Python dict, set and sort
\* ------------------------------------------------------------------------

\* A dict is the sequence of its <<key, value>> entries in insertion order.
DictKeys(d) == {d[i][1] : i \in 1..Len(d)}

DictHas(d, k) == \E i \in 1..Len(d) : d[i][1] = k

\* d.get(k, default)
DictGet(d, k, default) ==
    IF DictHas(d, k) THEN d[CHOOSE i \in 1..Len(d) : d[i][1] = k][2] ELSE default

\* d[k] = v: a new key is appended, an old key keeps its place
DictPut(d, k, v) ==
    IF DictHas(d, k)
    THEN [i \in 1..Len(d) |-> IF d[i][1] = k THEN <<k, v>> ELSE d[i]]
    ELSE Append(d, <<k, v>>)

\* (a, s) < (b, t) for Python tuples of an int and a str
IntStrLess(x, y) == x[1] < y[1] \/ (x[1] = y[1] /\ StrLess(x[2], y[2]))

\* list.sort / sorted with key=...: a stable sort of the values of the
\* <<key, value>> pairs xs by their (int, str) keys
RECURSIVE InsertByKey(_, _)
InsertByKey(sorted, x) ==
    IF sorted = <<>> THEN <<x>>
    ELSE IF IntStrLess(x[1], Head(sorted)[1]) THEN <<x>> \o sorted
    ELSE <<Head(sorted)>> \o InsertByKey(Tail(sorted), x)

RECURSIVE SortPairsByKey(_)
SortPairsByKey(xs) ==
    IF xs = <<>> THEN <<>>
    ELSE InsertByKey(SortPairsByKey(SubSeq(xs, 1, Len(xs) - 1)), xs[Len(xs)])

SortedByKey(xs) == LET r == SortPairsByKey(xs) IN [i \in 1..Len(r) |-> r[i][2]]

\* sorted(S) for a set of str
RECURSIVE SortedStrs(_)
SortedStrs(S) ==
    IF S = {} THEN <<>>
    ELSE LET m == CHOOSE x \in S : \A y \in S : StrLeq(x, y)
         IN  <<m>> \o SortedStrs(S \ {m})

\* (a, b) < (c, d) for Python tuples of two str
StrPairLess(x, y) == StrLess(x[1], y[1]) \/ (x[1] = y[1] /\ StrLess(x[2], y[2]))

\* the items of the dict as they are, in insertion order: no sort
UnsortedDictItems(d) == d

\* sorted(d.items()) for a dict keyed by (str, str): the keys are distinct,
\* so the values are never compared
RECURSIVE SortedDictItems(_)
SortedDictItems(d) ==
    IF d = <<>> THEN <<>>
    ELSE LET m == CHOOSE i \in 1..Len(d) :
                    \A j \in 1..Len(d) : j = i \/ StrPairLess(d[i][1], d[j][1])
         IN  <<d[m]>> \o SortedDictItems(SelectSeq(d, LAMBDA e : e # d[m]))

\* ------------------------------------------------------------------------
\* Artifacts in the output directory
\* ------------------------------------------------------------------------

\* A file whose text json.loads rejects (markdown, truncated JSON, ...).
Unparseable == [kind |-> "unparseable"]

\* A file holding a JSON value that is no object (a list, null, a number).
NonObject == [kind |-> "nonobject"]

\* A row of an items list that is no JSON object.
NotADict == [isdict |-> FALSE, ticker |-> None, source |-> None, acionista |-> None]

\* A record (a dict) with its ticker, source and acionista fields; None is
\* a missing key or a null.
Record(t, s, a) == [isdict |-> TRUE, ticker |-> t, source |-> s, acionista |-> a]

ExtAcionistasJson ==
    <<".", "a", "c", "i", "o", "n", "i", "s", "t", "a", "s", ".", "j", "s", "o", "n">>

SharksJson == <<"s", "h", "a", "r", "k", "s", ".", "j", "s", "o", "n">>

SrcVolume == <<"v", "o", "l", "u", "m", "e">>

SrcMagicFormula == <<"m", "a", "g", "i", "c", "_", "f", "o", "r", "m", "u", "l", "a">>

SrcAcionistas == <<"a", "c", "i", "o", "n", "i", "s", "t", "a", "s">>

TickerUnknown == <<"U", "N", "K", "N", "O", "W", "N">>

SrcData == <<"d", "a", "t", "a">>

ExtJson == <<".", "j", "s", "o", "n">>

ExtMd == <<".", "m", "d">>

\* The payload {generated_at, ticker, source, items} of a per-ticker
\* artifact; items_is_list tells whether items is a JSON list.
TickerPayload(generated_at, ticker, source, is_list, items) ==
    [kind |-> "object", generated_at |-> generated_at, ticker |-> ticker,
     source |-> source, items_is_list |-> is_list, items |-> items]

\* The payload {generated_at, source, items} of a wide artifact; items is
\* the dict from ticker to the ticker's payload.
WidePayload(generated_at, source, map) ==
    [kind |-> "wide", generated_at |-> generated_at, source |-> source, items |-> map]

\* json.dumps(payload): json.loads gives the payload back
JsonText(payload) == payload

\* _to_markdown(payload): the tables of the payload, text that json.loads
\* rejects
MarkdownText(payload) == [kind |-> "markdown", rendering |-> payload]

\* json.dumps(sharks) of sharks.json
SharksText(list) == [kind |-> "sharks", sharks |-> list]

\* a writer that opens the file for appending: a file that was there holds
\* two texts one after the other, which json.loads rejects
AppendText(fs, path, text) ==
    [q \in DOMAIN fs \cup {path} |->
        IF q # path THEN fs[q]
        ELSE IF path \in DOMAIN fs THEN Unparseable ELSE text]

\* out_path.write_text(text)
WriteText(fs, path, text) ==
    [q \in DOMAIN fs \cup {path} |-> IF q = path THEN text ELSE fs[q]]

\* ------------------------------------------------------------------------
\* scrap.py / main.py: the Grouper and the Aggregate Writer
\* ------------------------------------------------------------------------

\* a normalization that forgets the sentinel of an empty ticker
NormTickerNoSentinel(item) == Upper(Strip(StrOr(item.ticker, <<>>)))

\* line 176: str(item.get("ticker") or "").strip().upper() or "UNKNOWN"
NormTicker(item) == StrOr(Upper(Strip(StrOr(item.ticker, <<>>))), TickerUnknown)

\* line 177: str(item.get("source") or "data").strip().lower() or "data"
NormSource(item) == StrOr(Lower(Strip(StrOr(item.source, SrcData))), SrcData)

\* a Grouper that restarts the bucket at each record: by_key[key] = [item]
GroupIntoOverwrite(by, item) ==
    DictPut(by, <<NormTicker(item), NormSource(item)>>, <<item>>)

\* a Grouper that puts the record in front of its bucket: insert(0, item)
GroupIntoPrepend(by, item) ==
    LET key == <<NormTicker(item), NormSource(item)>>
    IN  DictPut(by, key, <<item>> \o DictGet(by, key, <<>>))

\* line 178: by_key.setdefault((ticker, source), []).append(item)
GroupInto(by, item) ==
    LET key == <<NormTicker(item), NormSource(item)>>
    IN  DictPut(by, key, Append(DictGet(by, key, <<>>), item))

\* a wide map that wraps every bucket, the single record too
WideEntryAlwaysWraps(ticker_items) == [wrapped |-> TRUE, items |-> ticker_items]

\* lines 184-187 and 191-194: the entry of a wide map for one bucket: the
\* record itself when it is alone, else the wrapper {"items": ticker_items}
WideEntry(ticker_items) ==
    IF Len(ticker_items) = 1
    THEN [wrapped |-> FALSE, items |-> <<ticker_items[1]>>]
    ELSE [wrapped |-> TRUE, items |-> ticker_items]

\* the loop body without its two continue statements: every bucket falls
\* through to the per-ticker write
FallsThroughAlways(source) == TRUE

\* lines 183-195: the bucket reaches the per-ticker write of line 197: it
\* was not diverted by one of the two continue statements
FallsThrough(source) == source # SrcVolume /\ source # SrcMagicFormula

\* a payload that carries no timestamp of the run
BucketPayloadUnstamped(now, ticker, source, ticker_items) ==
    TickerPayload(0, ticker, source, TRUE, ticker_items)

\* lines 197-202: the payload of a per-ticker artifact
BucketPayload(now, ticker, source, ticker_items) ==
    TickerPayload(now, ticker, source, TRUE, ticker_items)

\* lines 205 and 208: the path of a per-ticker artifact
TickerPath(ticker, source, format) ==
    Lower(ticker) \o <<".">> \o source \o (IF format = "md" THEN ExtMd ELSE ExtJson)

\* lines 217 and 234: the path of a wide artifact
WidePath(source, format) == source \o (IF format = "md" THEN ExtMd ELSE ExtJson)

\* lines 204-212, 224-230: the text written for a payload
Serialize(payload, format) ==
    IF format = "md" THEN MarkdownText(payload) ELSE JsonText(payload)

\* ------------------------------------------------------------------------
\* sharks.py: build_sharks
\* ------------------------------------------------------------------------

\* re.match(r"^([a-z0-9]+)\.acionistas\.json$", name, re.IGNORECASE): the
\* group, or None when the name does not match
FileNameTicker(name) ==
    LET stem == SubSeq(name, 1, Len(name) - Len(ExtAcionistasJson))
    IN  IF /\ Len(name) > Len(ExtAcionistasJson)
           /\ Lower(SubSeq(name, Len(stem) + 1, Len(name))) = ExtAcionistasJson
           /\ \A i \in 1..Len(stem) : stem[i] \in Alnum
        THEN stem ELSE None

\* lines 62-66: the ticker of the artifact at path p with payload pl
ArtifactTicker(p, pl) ==
    LET t == Upper(Strip(StrOr(pl.ticker, <<>>)))
    IN  IF t # <<>> THEN t
        ELSE IF FileNameTicker(p) # None THEN Upper(Strip(FileNameTicker(p)))
        ELSE <<>>

\* a scan that counts a spelling once per ticker, as it counts the ticker
ScanRowOncePerTicker(maps, ticker, item) ==
    LET name_raw == Strip(StrOr(item.acionista, <<>>))
        key == _normalize_shark_name(name_raw)
        counts == DictGet(maps.dnc, key, <<>>)
        seen == ticker \in DictGet(maps.am, key, {}) /\ DictHas(counts, name_raw)
    IN  IF ~item.isdict \/ name_raw = <<>> \/ key = <<>> \/ seen THEN maps
        ELSE [am  |-> DictPut(maps.am, key, DictGet(maps.am, key, {}) \cup {ticker}),
              dnc |-> DictPut(maps.dnc, key,
                              DictPut(counts, name_raw, DictGet(counts, name_raw, 0) + 1))]

\* a scan without lines 80-81: a row with an empty canonical key is kept
ScanRowKeepsEmptyKey(maps, ticker, item) ==
    LET name_raw == Strip(StrOr(item.acionista, <<>>))
        key == _normalize_shark_name(name_raw)
        counts == DictGet(maps.dnc, key, <<>>)
    IN  IF ~item.isdict \/ name_raw = <<>> THEN maps
        ELSE [am  |-> DictPut(maps.am, key, DictGet(maps.am, key, {}) \cup {ticker}),
              dnc |-> DictPut(maps.dnc, key,
                              DictPut(counts, name_raw, DictGet(counts, name_raw, 0) + 1))]

\* lines 73-85: one row of the artifact of ticker; maps is the pair of
\* accionistas_map and display_name_counts
ScanRow(maps, ticker, item) ==
    LET name_raw == Strip(StrOr(item.acionista, <<>>))
        key == _normalize_shark_name(name_raw)
        counts == DictGet(maps.dnc, key, <<>>)
    IN  IF ~item.isdict THEN maps
        ELSE IF name_raw = <<>> THEN maps
        ELSE IF key = <<>> THEN maps
        ELSE [am  |-> DictPut(maps.am, key, DictGet(maps.am, key, {}) \cup {ticker}),
              dnc |-> DictPut(maps.dnc, key,
                              DictPut(counts, name_raw, DictGet(counts, name_raw, 0) + 1))]

\* lines 72-85: the rows of one artifact in order
RECURSIVE ScanRows(_, _, _)
ScanRows(maps, ticker, rows) ==
    IF rows = <<>> THEN maps
    ELSE ScanRows(ScanRow(maps, ticker, Head(rows)), ticker, Tail(rows))

\* a key that forgets the count: the smallest spelling wins
CountKeyNoCount(x) == <<0, x[1]>>

\* a key of the count alone: among equal counts the spelling seen first wins
CountKeyFirstSeen(x) == <<0 - x[2], <<>>>>

\* the key of line 93: (-count, raw spelling)
CountKey(x) == <<0 - x[2], x[1]>>

\* a display name looked up under the first key of the dict, whatever the
\* key of the shark
DisplayNameAnyKey(shark_key, dnc) ==
    LET name_counts == IF dnc # <<>> THEN dnc[1][2] ELSE <<>>
    IN  IF name_counts # <<>> THEN SortedByKey([i \in 1..Len(name_counts) |->
                                        <<CountKey(name_counts[i]), name_counts[i]>>])[1][1]
        ELSE shark_key

\* lines 91-95
DisplayName(shark_key, dnc) ==
    LET name_counts == DictGet(dnc, shark_key, <<>>)
    IN  IF name_counts # <<>> THEN SortedByKey([i \in 1..Len(name_counts) |->
                                        <<CountKey(name_counts[i]), name_counts[i]>>])[1][1]
        ELSE shark_key

\* lines 88-103: one shark per entry of accionistas_map, in dict order
EmitSharks(am, dnc) ==
    [i \in 1..Len(am) |->
        LET items == SortedStrs(am[i][2])
        IN  [shark_name |-> DisplayName(am[i][1], dnc),
             quantity   |-> Len(items),
             items      |-> items]]

\* a key that forgets the minus sign: least connected first
SharkKeyAscending(x) == <<x.quantity, x.shark_name>>

\* the key of line 105: (-quantity, shark_name)
SharkKey(x) == <<0 - x.quantity, x.shark_name>>

\* line 105: sharks.sort(key=...)
SortSharks(xs) == SortedByKey([i \in 1..Len(xs) |-> <<SharkKey(xs[i]), xs[i]>>])

\* ------------------------------------------------------------------------
\* State
\* ------------------------------------------------------------------------

VARIABLES
    entry,                \* the program run: "sharks" (sharks.py), "scrap", "main"
    pc,                   \* where the run is
    files,                \* the output directory: path -> content
    written,              \* the write_text calls of the run: <<path, text>>
    pending,              \* build_sharks: the globbed paths still to scan
    accionistas_map,      \* build_sharks: canonical key -> set of tickers
    display_name_counts,  \* build_sharks: canonical key -> raw spelling -> count
    sharks,               \* the list build_sharks returned
    output_format,        \* scrap.py: "json" or "md"
    generated_at,         \* the timestamp of the run
    items,                \* the records run(config) returned
    cursor,               \* the Grouper: the next record of items
    by_key,               \* the Grouper: (ticker, source) -> records
    todo,                 \* the buckets still to divert or write, sorted
    volume_map,           \* ticker -> payload of the volume buckets
    magic_formula_map,    \* ticker -> payload of the magic_formula buckets
    call_name,            \* the name _normalize_shark_name is called with
    call_key,             \* what the call returned
    call_key2,            \* what the call on call_key returned
    first_run,            \* the output directory as the run before this one left it
    cfg,                  \* upload_data.py: the UploadConfig of the run
    config_data,          \* upload_data.py: what config.yaml holds
    upload_tickers,       \* _upsert_rows: tickers, once it has settled on them
    upserts               \* the upserts executed, each with its outcome

sharkVars == <<pending, accionistas_map, display_name_counts, sharks>>

groupVars == <<items, cursor, by_key, todo, volume_map, magic_formula_map>>

callVars == <<call_name, call_key, call_key2>>

uploadVars == <<cfg, config_data, upload_tickers, upserts>>

vars == <<entry, pc, files, written, output_format, generated_at, sharkVars, groupVars,
          callVars, first_run, uploadVars>>

\* ------------------------------------------------------------------------
\* Inputs
\* ------------------------------------------------------------------------

\* the size of a directory handed to sharks.py
MaxRows == 3

TickerA == <<"a">>
TickerB == <<"b">>

\* the shareholder artifacts a directory may hold
ArtifactStems == {TickerA, TickerB}

RawNames ==
    { <<"A", "b">>,
      <<"A", "B">>,
      <<" ", "Z", " ", "c", "o">>,
      <<".">> }

Rows == {NotADict, Record(None, None, None)} \cup {Record(None, None, n) : n \in RawNames}

Shapes == {"absent", "unparseable", "nonobject", "nolist", "object"}

\* the payload of a shareholder artifact: its ticker field and its items
Artifact(ticker, is_list, rows) == TickerPayload(0, ticker, SrcAcionistas, is_list, rows)

InputArtifact(stem, shape, has_ticker, rows) ==
    CASE shape = "unparseable" -> Unparseable
      [] shape = "nonobject"   -> NonObject
      [] shape = "nolist"      ->
            Artifact(IF has_ticker THEN Upper(stem) ELSE None, FALSE, <<>>)
      [] OTHER                 ->
            Artifact(IF has_ticker THEN Upper(stem) ELSE None, TRUE, rows)

\* a directory: the artifacts present, each with its shape and rows
InputDir(shape, has_ticker, rows) ==
    [p \in {s \o ExtAcionistasJson : s \in {t \in ArtifactStems : shape[t] # "absent"}} |->
        LET stem == SubSeq(p, 1, Len(p) - Len(ExtAcionistasJson))
        IN  InputArtifact(stem, shape[stem], has_ticker[stem], rows[stem])]

\* the directory of the worked example of the Shark Resolver
ExampleDir ==
    LET acme_corp == <<"A", "C", "M", "E", " ", "C", "o", "r", "p">>
        acme_CORP == <<"A", "C", "M", "E", " ", "C", "O", "R", "P">>
        acme      == <<"A", "C", "M", "E">>
        beta_ltd  == <<"B", "e", "t", "a", " ", "L", "t", "d">>
    IN  (<<"a">> \o ExtAcionistasJson :>
            Artifact(<<"A">>, TRUE, <<Record(None, None, acme_corp),
                                      Record(None, None, acme)>>))
        @@ (<<"b">> \o ExtAcionistasJson :>
            Artifact(<<"B">>, TRUE, <<Record(None, None, acme_CORP)>>))
        @@ (<<"c">> \o ExtAcionistasJson :>
            Artifact(<<"C">>, TRUE, <<Record(None, None, beta_ltd)>>))

\* the artifact of a ticker with a dot, A.B, stored under a.b.acionistas.json
\* with and without its ticker field
DottedDirs ==
    {(<<"a", ".", "b">> \o ExtAcionistasJson) :>
        Artifact(ticker, TRUE, <<Record(None, None, <<"A", "b">>)>>) :
            ticker \in {<<"A", ".", "B">>, None}}

\* the pieces a name handed to _normalize_shark_name is made of
MaxPieces == 4

\* the pieces: white space, punctuation, a quote, letters of both cases that
\* spell the suffixes sa, s/a and co, and an accented letter
Pieces ==
    { <<" ">>, <<".">>, <<"/">>, <<"'">>, <<"S">>, <<"a">>, <<"C", "o">>, <<"u_acute">> }

RECURSIVE Concat(_)
Concat(parts) == IF parts = <<>> THEN <<>> ELSE Head(parts) \o Concat(Tail(parts))

NameBancoItauSA ==
    <<"B", "a", "n", "c", "o", " ", "I", "t", "a", "u_acute", " ", "S", "/", "A">>

NameBANCOITAUSA ==
    <<"B", "A", "N", "C", "O", " ", "I", "T", "A", "U", " ", "S", "A">>

NameBancoItauSa ==
    <<"b", "a", "n", "c", "o", " ", " ", " ", "i", "t", "a", "u", ",", " ",
      "s", ".", "a", ".">>

NameLtda == <<"L", "t", "d", "a">>

NameItauUnibanco ==
    <<"I", "t", "a", "u", " ", "U", "n", "i", "b", "a", "n", "c", "o", " ",
      "H", "o", "l", "d", "i", "n", "g", " ", "S", "A">>

NameAcmeLP == <<"A", "c", "m", "e", " ", "L", ".", "P">>

\* the names of the examples of the Name Canonicalizer, a name with two
\* corporate suffixes, a name that ends in L.P, and no name at all
FixtureNames ==
    {NameBancoItauSA, NameBANCOITAUSA, NameBancoItauSa, NameLtda, NameItauUnibanco,
     NameAcmeLP, None}

\* the records run(config) returns in one run
MaxItems == 3

\* the records the providers may return
Records ==
    { Record(None, None, None),
      Record(<<>>, <<" ">>, None),
      Record(<<" ">>, <<>>, None),
      Record(<<"a">>, SrcVolume, None),
      Record(<<" ", "B">>, <<"V", "o", "l", "u", "m", "e", " ">>, None),
      Record(<<"b">>, SrcMagicFormula, None),
      Record(<<"a">>, SrcAcionistas, <<"A", "b">>),
      Record(<<"B", " ">>, <<"A", "c", "i", "o", "n", "i", "s", "t", "a", "s">>,
             <<"A", "B">>) }

\* records with a dot in the ticker or in the source
DottedRecords ==
    { Record(<<"A", ".", "B">>, <<"c">>, None),
      Record(<<"A">>, <<"b", ".", "c">>, None) }

EmptyDir == [p \in {} |-> Unparseable]

\* what an earlier use of the directory may have left behind: the artifact
\* of a ticker of no record, well-formed, cut short, or no JSON object
LeftoverDirs ==
    {(<<"c">> \o ExtAcionistasJson) :> pl :
        pl \in {Artifact(<<"C">>, TRUE, <<Record(<<"C">>, SrcAcionistas, <<"A", "b">>)>>),
                Unparseable, NonObject}}

\* ------------------------------------------------------------------------
\* Initial states
\* ------------------------------------------------------------------------

\* a directory of at most MaxRows rows; an artifact that is no object with
\* a list of rows counts as one row
InitSharksDir ==
    \/ \E shape \in [ArtifactStems -> Shapes], has_ticker \in BOOLEAN :
       \E na \in 0..MaxRows :
       \E nb \in 0..(MaxRows - na) :
       \E ra \in [1..na -> Rows], rb \in [1..nb -> Rows] :
          /\ shape[TickerA] # "object" => na = 0
          /\ shape[TickerB] # "object" => nb = 0
          /\ na + nb + Cardinality({t \in ArtifactStems :
                           shape[t] \in {"unparseable", "nonobject", "nolist"}}) <= MaxRows
          /\ files = InputDir(shape, [t \in ArtifactStems |-> has_ticker],
                              (TickerA :> ra) @@ (TickerB :> rb))
    \/ files = ExampleDir
    \/ files \in DottedDirs

\* sharks.py run on a directory of shareholder artifacts
InitSharks ==
    /\ entry = "sharks"
    /\ pc = "build_sharks"
    /\ InitSharksDir
    /\ output_format = "json"
    /\ generated_at = 0
    /\ items = <<>>

\* scrap.py (output_format json or md) or main.py run on an empty
\* directory, or on a directory that still holds one shareholder artifact,
\* or on an empty directory with records that have dots in their fields
InitPipeline ==
    /\ \/ entry = "scrap" /\ output_format \in {"json", "md"}
       \/ entry = "main" /\ output_format = "json"
    /\ pc = "group"
    /\ generated_at = 1
    /\ \/ /\ files = EmptyDir
          /\ \E n \in 0..MaxItems : items \in [1..n -> Records]
       \/ /\ files \in LeftoverDirs
          /\ \E n \in 0..1 : items \in [1..n -> Records]
       \/ /\ files = EmptyDir
          /\ \E n \in 1..2 : items \in [1..n -> DottedRecords]

InitRest ==
    /\ written = <<>>
    /\ cursor = 1
    /\ by_key = <<>>
    /\ todo = <<>>
    /\ volume_map = <<>>
    /\ magic_formula_map = <<>>
    /\ pending = <<>>
    /\ accionistas_map = <<>>
    /\ display_name_counts = <<>>
    /\ sharks = <<>>
    /\ first_run = EmptyDir

\* no run of upload_data.py
NoUpload ==
    /\ cfg = [tickers_given |-> FALSE, tickers |-> <<>>, dry_run |-> FALSE, common_id |-> 1]
    /\ config_data = [kind |-> "missing"]
    /\ upload_tickers = <<>>
    /\ upserts = <<>>

\* no call of _normalize_shark_name on its own
NoCall ==
    /\ call_name = <<>>
    /\ call_key = <<>>
    /\ call_key2 = <<>>

\* ------------------------------------------------------------------------
\* scrap.py main / main.py main: grouping and writing
\* ------------------------------------------------------------------------

\* lines 175-178: one record of items
GroupItem ==
    /\ pc = "group"
    /\ cursor <= Len(items)
    /\ by_key' = GroupInto(by_key, items[cursor])
    /\ cursor' = cursor + 1
    /\ UNCHANGED <<uploadVars, callVars, first_run, entry, pc, files, written, output_format, generated_at, sharkVars,
                   items, todo, volume_map, magic_formula_map>>

\* lines 180-182: the empty wide maps and sorted(by_key.items())
BeginBuckets ==
    /\ pc = "group"
    /\ cursor > Len(items)
    /\ todo' = SortedDictItems(by_key)
    /\ volume_map' = <<>>
    /\ magic_formula_map' = <<>>
    /\ pc' = "buckets"
    /\ UNCHANGED <<uploadVars, callVars, first_run, entry, files, written, output_format, generated_at, sharkVars,
                   items, cursor, by_key>>

\* lines 183-188: a volume bucket goes to volume_map
DivertVolume ==
    /\ pc = "buckets"
    /\ todo # <<>>
    /\ Head(todo)[1][2] = SrcVolume
    /\ volume_map' = DictPut(volume_map, Head(todo)[1][1], WideEntry(Head(todo)[2]))
    /\ todo' = Tail(todo)
    /\ UNCHANGED <<uploadVars, callVars, first_run, entry, pc, files, written, output_format, generated_at, sharkVars,
                   items, cursor, by_key, magic_formula_map>>

\* lines 190-195: a magic_formula bucket goes to magic_formula_map
DivertMagicFormula ==
    /\ pc = "buckets"
    /\ todo # <<>>
    /\ Head(todo)[1][2] = SrcMagicFormula
    /\ magic_formula_map' =
            DictPut(magic_formula_map, Head(todo)[1][1], WideEntry(Head(todo)[2]))
    /\ todo' = Tail(todo)
    /\ UNCHANGED <<uploadVars, callVars, first_run, entry, pc, files, written, output_format, generated_at, sharkVars,
                   items, cursor, by_key, volume_map>>

\* lines 197-214: any other bucket is written to its own artifact
WriteTickerArtifact ==
    /\ pc = "buckets"
    /\ todo # <<>>
    /\ FallsThrough(Head(todo)[1][2])
    /\ LET ticker == Head(todo)[1][1]
           source == Head(todo)[1][2]
           payload == BucketPayload(generated_at, ticker, source, Head(todo)[2])
           out_path == TickerPath(ticker, source, output_format)
       IN  /\ files' = WriteText(files, out_path, Serialize(payload, output_format))
           /\ written' = Append(written, <<out_path, Serialize(payload, output_format)>>)
    /\ todo' = Tail(todo)
    /\ UNCHANGED <<uploadVars, callVars, first_run, entry, pc, output_format, generated_at, sharkVars,
                   items, cursor, by_key, volume_map, magic_formula_map>>

\* lines 216-231: the volume artifact, when volume_map is not empty
WriteVolume ==
    /\ pc = "buckets"
    /\ todo = <<>>
    /\ LET out_path == WidePath(SrcVolume, output_format)
           text == Serialize(WidePayload(generated_at, SrcVolume, volume_map),
                             output_format)
       IN  IF volume_map # <<>>
           THEN /\ files' = WriteText(files, out_path, text)
                /\ written' = Append(written, <<out_path, text>>)
           ELSE UNCHANGED <<files, written>>
    /\ pc' = "magic_formula"
    /\ UNCHANGED <<uploadVars, callVars, first_run, entry, output_format, generated_at, sharkVars, groupVars>>

\* lines 233-248: the magic_formula artifact, when the map is not empty;
\* scrap.py goes on to build_sharks, main.py returns
WriteMagicFormula ==
    /\ pc = "magic_formula"
    /\ LET out_path == WidePath(SrcMagicFormula, output_format)
           text == Serialize(WidePayload(generated_at, SrcMagicFormula, magic_formula_map),
                             output_format)
       IN  IF magic_formula_map # <<>>
           THEN /\ files' = WriteText(files, out_path, text)
                /\ written' = Append(written, <<out_path, text>>)
           ELSE UNCHANGED <<files, written>>
    /\ pc' = IF entry = "scrap" THEN "build_sharks" ELSE "done"
    /\ UNCHANGED <<uploadVars, callVars, first_run, entry, output_format, generated_at, sharkVars, groupVars>>

\* scrap.py main, lines 250-262
ScrapWriteSharks ==
    /\ entry = "scrap"
    /\ pc = "built"
    /\ IF sharks # <<>>
       THEN /\ files' = WriteText(files, SharksJson, SharksText(sharks))
            /\ written' = Append(written, <<SharksJson, SharksText(sharks)>>)
       ELSE UNCHANGED <<files, written>>
    /\ pc' = "done"
    /\ UNCHANGED <<uploadVars, callVars, first_run, entry, output_format, generated_at, sharkVars, groupVars>>

\* ------------------------------------------------------------------------
\* build_sharks, one action per iteration of its loop over the artifacts
\* ------------------------------------------------------------------------

\* lines 53-56: the empty maps and sorted(out_dir.glob("*.acionistas.json"))
BuildSharksBegin ==
    /\ pc = "build_sharks"
    /\ pending' = SortedStrs({p \in DOMAIN files : EndsWith(p, ExtAcionistasJson)})
    /\ accionistas_map' = <<>>
    /\ display_name_counts' = <<>>
    /\ pc' = "scan"
    /\ UNCHANGED <<uploadVars, callVars, first_run, entry, files, written, sharks, output_format, generated_at, groupVars>>

\* lines 57-60 and 69-70: an artifact json.loads rejects, or one with no
\* ticker or with items that is no list, is passed over
SkipArtifact ==
    /\ pc = "scan"
    /\ pending # <<>>
    /\ LET pl == files[Head(pending)]
       IN  \/ pl.kind \in {"unparseable", "markdown"}
           \/ /\ pl.kind = "object"
              /\ ArtifactTicker(Head(pending), pl) = <<>> \/ ~pl.items_is_list
    /\ pending' = Tail(pending)
    /\ UNCHANGED <<uploadVars, callVars, first_run, entry, pc, files, written, accionistas_map, display_name_counts, sharks,
                   output_format, generated_at, groupVars>>

\* line 62: payload.get on a JSON value that is no object raises
\* AttributeError outside the try block; nothing catches it
ScanRaises ==
    /\ pc = "scan"
    /\ pending # <<>>
    /\ files[Head(pending)].kind = "nonobject"
    /\ pc' = "raised"
    /\ UNCHANGED <<uploadVars, callVars, first_run, entry, files, written, output_format, generated_at, sharkVars, groupVars>>

\* lines 62-85: the rows of a well-formed artifact
ScanArtifact ==
    /\ pc = "scan"
    /\ pending # <<>>
    /\ LET p == Head(pending)
           pl == files[p]
       IN  /\ pl.kind = "object"
           /\ ArtifactTicker(p, pl) # <<>>
           /\ pl.items_is_list
           /\ LET maps == ScanRows([am |-> accionistas_map, dnc |-> display_name_counts],
                                   ArtifactTicker(p, pl), pl.items)
              IN  /\ accionistas_map' = maps.am
                  /\ display_name_counts' = maps.dnc
    /\ pending' = Tail(pending)
    /\ UNCHANGED <<uploadVars, callVars, first_run, entry, pc, files, written, sharks, output_format, generated_at, groupVars>>

\* lines 87-106: the sharks, sorted
BuildSharksReturn ==
    /\ pc = "scan"
    /\ pending = <<>>
    /\ sharks' = SortSharks(EmitSharks(accionistas_map, display_name_counts))
    /\ pc' = "built"
    /\ UNCHANGED <<uploadVars, callVars, first_run, entry, files, written, pending, accionistas_map, display_name_counts,
                   output_format, generated_at, groupVars>>

\* sharks.py main, lines 115-126
SharksMain ==
    /\ entry = "sharks"
    /\ pc = "built"
    /\ IF sharks # <<>>
       THEN /\ files' = WriteText(files, SharksJson, SharksText(sharks))
            /\ written' = Append(written, <<SharksJson, SharksText(sharks)>>)
       ELSE UNCHANGED <<files, written>>
    /\ pc' = "done"
    /\ UNCHANGED <<uploadVars, callVars, first_run, entry, output_format, generated_at, sharkVars, groupVars>>

\* scrap.py and main.py
Init == InitPipeline /\ InitRest /\ NoCall /\ NoUpload

Next ==
    \/ GroupItem
    \/ BeginBuckets
    \/ DivertVolume
    \/ DivertMagicFormula
    \/ WriteTickerArtifact
    \/ WriteVolume
    \/ WriteMagicFormula
    \/ BuildSharksBegin
    \/ SkipArtifact
    \/ ScanRaises
    \/ ScanArtifact
    \/ BuildSharksReturn
    \/ ScrapWriteSharks

Spec == Init /\ [][Next]_vars

\* the program is started once more on the directory the first run left, the
\* providers returning the same records; the clock has moved on
RunAgain ==
    /\ entry \in {"scrap", "main"}
    /\ pc \in {"done", "raised"}
    /\ generated_at = 1
    /\ generated_at' = generated_at + 1
    /\ first_run' = files
    /\ pc' = "group"
    /\ written' = <<>>
    /\ cursor' = 1
    /\ by_key' = <<>>
    /\ todo' = <<>>
    /\ volume_map' = <<>>
    /\ magic_formula_map' = <<>>
    /\ pending' = <<>>
    /\ accionistas_map' = <<>>
    /\ display_name_counts' = <<>>
    /\ sharks' = <<>>
    /\ UNCHANGED <<uploadVars, callVars, entry, files, output_format, items>>

\* scrap.py or main.py run twice
RerunNext == Next \/ RunAgain

RerunSpec == Init /\ [][RerunNext]_vars

\* the records of two runs of scrap.py after one another
MaxRunItems == 2

\* shareholder records of two tickers, one of them without a name, and a
\* record of each wide source
TwoRunRecords ==
    { Record(<<"a">>, SrcAcionistas, <<"A", "b">>),
      Record(<<"B", " ">>, <<"A", "c", "i", "o", "n", "i", "s", "t", "a", "s">>,
             <<"A", "B">>),
      Record(<<"a">>, SrcAcionistas, None),
      Record(<<"b">>, SrcAcionistas, None),
      Record(<<"a">>, SrcVolume, None),
      Record(<<"b">>, SrcMagicFormula, None) }

\* scrap.py started on an empty directory, or on one that holds an artifact
\* of an earlier use
TwoRunInit ==
    /\ entry = "scrap"
    /\ output_format \in {"json", "md"}
    /\ pc = "group"
    /\ generated_at = 1
    /\ \/ /\ files = EmptyDir
          /\ \E n \in 0..MaxRunItems : items \in [1..n -> TwoRunRecords]
       \/ /\ files \in LeftoverDirs
          /\ \E n \in 0..1 : items \in [1..n -> TwoRunRecords]
    /\ InitRest
    /\ NoCall
    /\ NoUpload

\* scrap.py is started once more on the directory the first run left, with
\* the same configuration; the providers return other records
RunOther ==
    /\ entry = "scrap"
    /\ pc \in {"done", "raised"}
    /\ generated_at = 1
    /\ generated_at' = generated_at + 1
    /\ \E n \in 0..MaxRunItems : items' \in [1..n -> TwoRunRecords]
    /\ first_run' = files
    /\ pc' = "group"
    /\ written' = <<>>
    /\ cursor' = 1
    /\ by_key' = <<>>
    /\ todo' = <<>>
    /\ volume_map' = <<>>
    /\ magic_formula_map' = <<>>
    /\ pending' = <<>>
    /\ accionistas_map' = <<>>
    /\ display_name_counts' = <<>>
    /\ sharks' = <<>>
    /\ UNCHANGED <<uploadVars, callVars, entry, files, output_format>>

\* scrap.py run on records R1, then on records R2
TwoRunNext == Next \/ RunOther

TwoRunSpec == TwoRunInit /\ [][TwoRunNext]_vars

\* sharks.py on its own
SharksInit == InitSharks /\ InitRest /\ NoCall /\ NoUpload

SharksNext ==
    \/ BuildSharksBegin
    \/ SkipArtifact
    \/ ScanRaises
    \/ ScanArtifact
    \/ BuildSharksReturn
    \/ SharksMain

SharksSpec == SharksInit /\ [][SharksNext]_vars

\* the rows of a directory that is resolved, rearranged and resolved again
MaxOrderRows == 3

\* rows of three spellings, two of them of one shareholder
OrderRows ==
    {Record(None, None, n) : n \in {<<"A", "b">>, <<"A", "B">>, <<" ", "Z", " ", "c", "o">>}}

\* a directory of at most MaxOrderRows rows; an artifact that is no object
\* counts as one row
OrderInitDir ==
    \E shape \in [ArtifactStems -> {"absent", "unparseable", "nonobject", "object"}],
       has_ticker \in BOOLEAN :
    \E na \in 0..MaxOrderRows :
    \E nb \in 0..(MaxOrderRows - na) :
    \E ra \in [1..na -> OrderRows], rb \in [1..nb -> OrderRows] :
       /\ shape[TickerA] # "object" => na = 0
       /\ shape[TickerB] # "object" => nb = 0
       /\ na + nb + Cardinality({t \in ArtifactStems :
                        shape[t] \in {"unparseable", "nonobject"}}) <= MaxOrderRows
       /\ files = InputDir(shape, [t \in ArtifactStems |-> has_ticker],
                           (TickerA :> ra) @@ (TickerB :> rb))

\* sharks.py run on a directory of shareholder artifacts
OrderInit ==
    /\ entry = "sharks"
    /\ pc = "build_sharks"
    /\ OrderInitDir
    /\ output_format = "json"
    /\ generated_at = 0
    /\ items = <<>>
    /\ InitRest
    /\ NoCall
    /\ NoUpload

\* the shareholder artifacts of directory d, as line 56 globs them
ArtifactPaths(d) == {p \in DOMAIN d : EndsWith(p, ExtAcionistasJson)}

\* the path with the stem in upper case: the same ticker to the regular
\* expression of line 64, another place in sorted(glob)
UpperStemPath(p) ==
    Upper(SubSeq(p, 1, Len(p) - Len(ExtAcionistasJson))) \o ExtAcionistasJson

\* the permutations of 1..n, for every n a directory has rows for
Perms ==
    [n \in 0..MaxOrderRows |->
        {f \in [1..n -> 1..n] : \A i \in 1..n : \A j \in 1..n : f[i] = f[j] => i = j}]

\* the number of rows of a payload
RowCount(pl) == IF pl.kind = "object" /\ pl.items_is_list THEN Len(pl.items) ELSE 0

\* the payload with its rows in the order perm
PermuteRows(pl, perm) ==
    IF RowCount(pl) = 0 THEN pl
    ELSE [pl EXCEPT !.items = [i \in 1..Len(pl.items) |-> pl.items[perm[i]]]]

\* directory d with artifact p stored at rename[p], its rows in the order
\* perm[p]; every other file as it is
Rearranged(d, rename, perm) ==
    [q \in {rename[p] : p \in ArtifactPaths(d)} \cup (DOMAIN d \ ArtifactPaths(d)) |->
        IF q \in DOMAIN d \ ArtifactPaths(d) THEN d[q]
        ELSE LET p == CHOOSE x \in ArtifactPaths(d) : rename[x] = q
             IN  PermuteRows(d[p], perm[p])]

\* the artifacts are stored again, upper-case or lower-case stems and the
\* rows of each in another order, and sharks.py is run on them
Rearrange ==
    /\ entry = "sharks"
    /\ pc \in {"done", "raised"}
    /\ generated_at = 0
    /\ generated_at' = generated_at + 1
    /\ LET pa == TickerA \o ExtAcionistasJson
           pb == TickerB \o ExtAcionistasJson
           Rows_(p) == IF p \in DOMAIN files THEN RowCount(files[p]) ELSE 0
       IN  \E upper_a \in BOOLEAN, upper_b \in BOOLEAN :
           \E perm_a \in Perms[Rows_(pa)], perm_b \in Perms[Rows_(pb)] :
              files' = Rearranged(files,
                                  (pa :> IF upper_a THEN UpperStemPath(pa) ELSE pa)
                                  @@ (pb :> IF upper_b THEN UpperStemPath(pb) ELSE pb),
                                  (pa :> perm_a) @@ (pb :> perm_b))
    /\ first_run' = files
    /\ pc' = "build_sharks"
    /\ written' = <<>>
    /\ pending' = <<>>
    /\ accionistas_map' = <<>>
    /\ display_name_counts' = <<>>
    /\ sharks' = <<>>
    /\ UNCHANGED <<uploadVars, callVars, entry, output_format, groupVars>>

\* sharks.py on a directory, then on a rearrangement of it
OrderNext == SharksNext \/ Rearrange

OrderSpec == OrderInit /\ [][OrderNext]_vars

\* ------------------------------------------------------------------------
\* upload_data.py: _upsert_rows
\* ------------------------------------------------------------------------

\* _get_tickers, lines 36-41 and 53-58: the tickers of the list trimmed and
\* upper-cased, without the empty ones and without repetitions
RECURSIVE DedupTickers(_, _)
DedupTickers(list, result) ==
    IF list = <<>> THEN result
    ELSE LET v == Upper(Strip(StrOr(Head(list), <<>>)))
         IN  IF v = <<>> \/ v \in SeqToSet(result) THEN DedupTickers(Tail(list), result)
             ELSE DedupTickers(Tail(list), Append(result, v))

\* _get_tickers(config, None), lines 44-59: the list of the key tickers,
\* the empty list standing for None when the key is absent or no list
ConfigTickers(config) ==
    IF config.tickers_kind = "list" THEN DedupTickers(config.tickers, <<>>) ELSE <<>>

\* the pattern of line 65 matched against a file name: group 1 in upper
\* case, or None
InferTicker(name) ==
    LET body == SubSeq(name, 1, Len(name) - Len(ExtJson))
        dots == {i \in 1..Len(body) : body[i] = "."}
    IN  IF /\ Len(name) > Len(ExtJson)
           /\ Lower(SubSeq(name, Len(body) + 1, Len(name))) = ExtJson
           /\ Cardinality(dots) = 1
           /\ \E i \in dots :
                 /\ i > 1 /\ i < Len(body)
                 /\ \A j \in 1..(i - 1) : body[j] \in Alnum
                 /\ \A j \in (i + 1)..Len(body) : body[j] \in Alnum \cup {"_"}
        THEN Upper(SubSeq(body, 1, (CHOOSE i \in dots : TRUE) - 1))
        ELSE None

\* lines 67-75: the tickers of the names in order, each once
RECURSIVE InferFrom(_, _)
InferFrom(names, result) ==
    IF names = <<>> THEN result
    ELSE LET t == InferTicker(Head(names))
         IN  IF t = None \/ t \in SeqToSet(result) THEN InferFrom(Tail(names), result)
             ELSE InferFrom(Tail(names), Append(result, t))

\* _infer_tickers_from_outputs: over sorted(outputs_dir.glob("*.json"))
_infer_tickers_from_outputs(dir) ==
    InferFrom(SortedStrs({p \in DOMAIN dir : EndsWith(p, ExtJson)}), <<>>)

\* _maybe_read_outputs_json: the JSON value of the file, None when the file
\* is absent or is no JSON
_maybe_read_outputs_json(dir, file_name) ==
    IF file_name \notin DOMAIN dir THEN [kind |-> "none"]
    ELSE IF dir[file_name].kind \in {"unparseable", "markdown"} THEN [kind |-> "none"]
    ELSE dir[file_name]

\* _build_row with mt5_files_dir None: the three artifacts of the ticker
_build_row(dir, ticker, today) ==
    LET t == Upper(Strip(ticker))
    IN  [ticker           |-> t,
         update_at        |-> today,
         data_insiders    |-> _maybe_read_outputs_json(dir,
                                 Lower(t) \o <<".", "i", "n", "s", "i", "d", "e", "r", "s">> \o ExtJson),
         data_indicators  |-> _maybe_read_outputs_json(dir,
                                 Lower(t) \o <<".", "s", "t", "a", "t", "u", "s", "i", "n", "v", "e", "s", "t">>
                                    \o ExtJson),
         data_shark       |-> _maybe_read_outputs_json(dir, Lower(t) \o ExtAcionistasJson),
         data_obv         |-> [kind |-> "none"],
         data_adx         |-> [kind |-> "none"],
         data_peaks_valleys |-> [kind |-> "none"],
         image_mt5        |-> [kind |-> "none"]]

\* _build_common_row
_build_common_row(dir, common_id) ==
    [id                 |-> common_id,
     data_magic_formula |-> _maybe_read_outputs_json(dir, SrcMagicFormula \o ExtJson),
     data_volume        |-> _maybe_read_outputs_json(dir, SrcVolume \o ExtJson),
     data_sharks        |-> _maybe_read_outputs_json(dir, SharksJson)]

\* an upsert whose reported error does not stop the run
AfterUpsertIgnoresError(outcome, next) ==
    IF outcome = "raises" THEN "raised" ELSE next

\* lines 217-218 and 231-232: where the run goes after execute(): on, out
\* with SystemExit when the response reports an error, or out with the
\* exception execute() raised
AfterUpsert(outcome, next) ==
    IF outcome = "ok" THEN next
    ELSE IF outcome = "error" THEN "exit"
    ELSE "raised"

\* what execute() may do
Outcomes == {"ok", "error", "raises"}

\* cfg.tickers: None, or the list main made with _get_tickers
CfgTickers ==
    { [given |-> FALSE, list |-> <<>>],
      [given |-> TRUE,  list |-> <<>>],
      [given |-> TRUE,  list |-> <<<<"A">>>>],
      [given |-> TRUE,  list |-> <<<<"C">>, <<"A">>>>] }

\* config.yaml in the working directory: absent, no mapping, or a mapping
\* whose key tickers is absent, no list, or a list
ConfigData ==
    {[kind |-> "missing"], [kind |-> "nondict"]}
    \cup {[kind |-> "dict", tickers_kind |-> k, tickers |-> <<>>] : k \in {"none", "nonlist", "list"}}
    \cup {[kind |-> "dict", tickers_kind |-> "list", tickers |-> l] :
            l \in {<<None, <<" ">>>>, <<<<" ", "b">>, <<"B">>, <<"a">>>>}}

\* the outputs directory: empty, or with artifacts of tickers, or with files
\* whose names give no ticker
UploadDirs ==
    LET art == Artifact(<<"A">>, TRUE, <<Record(<<"A">>, SrcAcionistas, <<"A", "b">>)>>)
        one == [shark_name |-> <<"A", "b">>, quantity |-> 1, items |-> <<<<"A">>>>]
    IN  { EmptyDir,
          (<<"a">> \o ExtAcionistasJson) :> art,
          ((<<"a">> \o ExtAcionistasJson) :> art)
             @@ ((<<"B", ".", "i", "n", "s", "i", "d", "e", "r", "s">> \o ExtJson) :> Unparseable)
             @@ (SharksJson :> SharksText(<<one>>)),
          SharksJson :> SharksText(<<one>>),
          (<<"a", ".", "b", ".", "c">> \o ExtJson) :> NonObject,
          (<<"a", ".", "a", "c", "i", "o", "n", "i", "s", "t", "a", "s">> \o ExtMd)
             :> MarkdownText(art) }

\* _upsert_rows is called
UploadInit ==
    /\ entry = "upload"
    /\ pc = "upsert_rows"
    /\ \E t \in CfgTickers, dry \in BOOLEAN :
          cfg = [tickers_given |-> t.given, tickers |-> t.list, dry_run |-> dry,
                 common_id |-> 1]
    /\ config_data \in ConfigData
    /\ files \in UploadDirs
    /\ upload_tickers = <<>>
    /\ upserts = <<>>
    /\ output_format = "json"
    /\ generated_at = 1
    /\ items = <<>>
    /\ InitRest
    /\ NoCall

\* the rows of lines 203 and 205
UploadRows == [i \in 1..Len(upload_tickers) |-> _build_row(files, upload_tickers[i], generated_at)]

\* lines 191-205: config.yaml is read, the tickers are settled, the rows
\* are built; without tickers the run ends with SystemExit
SettleTickers ==
    /\ entry = "upload"
    /\ pc = "upsert_rows"
    /\ IF \/ config_data.kind = "missing"
          \/ config_data.kind = "nondict" /\ ~cfg.tickers_given
       THEN /\ pc' = "raised"
            /\ UNCHANGED upload_tickers
       ELSE LET given == IF cfg.tickers_given THEN cfg.tickers ELSE ConfigTickers(config_data)
                found == IF given = <<>> THEN _infer_tickers_from_outputs(files) ELSE given
            IN  /\ upload_tickers' = found
                /\ pc' = IF found = <<>> THEN "exit" ELSE "ready"
    /\ UNCHANGED <<cfg, config_data, upserts, callVars, first_run, entry, files, written,
                   output_format, generated_at, sharkVars, groupVars>>

\* lines 207-212: a dry run prints the rows and returns
DryRun ==
    /\ entry = "upload"
    /\ pc = "ready"
    /\ cfg.dry_run
    /\ pc' = "done"
    /\ UNCHANGED <<uploadVars, callVars, first_run, entry, files, written, output_format,
                   generated_at, sharkVars, groupVars>>

\* line 214: create_client returns the client, or raises
CreateClient ==
    /\ entry = "upload"
    /\ pc = "ready"
    /\ ~cfg.dry_run
    /\ \E created \in BOOLEAN : pc' = IF created THEN "upsert_indicators" ELSE "raised"
    /\ UNCHANGED <<uploadVars, callVars, first_run, entry, files, written, output_format,
                   generated_at, sharkVars, groupVars>>

\* lines 216-224: the upsert of the rows into indicators
UpsertIndicators ==
    /\ entry = "upload"
    /\ pc = "upsert_indicators"
    /\ \E outcome \in Outcomes :
          /\ upserts' = Append(upserts, [table |-> "indicators", rows |-> UploadRows,
                                         on_conflict |-> "ticker", outcome |-> outcome])
          /\ pc' = AfterUpsert(outcome, "upsert_common")
    /\ UNCHANGED <<cfg, config_data, upload_tickers, callVars, first_run, entry, files,
                   written, output_format, generated_at, sharkVars, groupVars>>

\* lines 226-232: the upsert of the common row into indicators_common
UpsertCommon ==
    /\ entry = "upload"
    /\ pc = "upsert_common"
    /\ \E outcome \in Outcomes :
          /\ upserts' = Append(upserts, [table |-> "indicators_common",
                                         rows |-> <<_build_common_row(files, cfg.common_id)>>,
                                         on_conflict |-> "id", outcome |-> outcome])
          /\ pc' = AfterUpsert(outcome, "done")
    /\ UNCHANGED <<cfg, config_data, upload_tickers, callVars, first_run, entry, files,
                   written, output_format, generated_at, sharkVars, groupVars>>

UploadNext ==
    \/ SettleTickers
    \/ DryRun
    \/ CreateClient
    \/ UpsertIndicators
    \/ UpsertCommon

UploadSpec == UploadInit /\ [][UploadNext]_vars

\* ------------------------------------------------------------------------
\* _normalize_shark_name on its own
\* ------------------------------------------------------------------------

\* a call of _normalize_shark_name with a name of at most MaxPieces pieces,
\* or with one of the fixture names
CanonInit ==
    /\ entry = "canonicalize"
    /\ pc = "call"
    /\ \/ \E n \in 0..MaxPieces : \E parts \in [1..n -> Pieces] : call_name = Concat(parts)
       \/ call_name \in FixtureNames
    /\ call_key = <<>>
    /\ call_key2 = <<>>
    /\ files = EmptyDir
    /\ output_format = "json"
    /\ generated_at = 0
    /\ items = <<>>
    /\ InitRest
    /\ NoUpload

\* key = _normalize_shark_name(name)
Canonicalize ==
    /\ pc = "call"
    /\ call_key' = _normalize_shark_name(call_name)
    /\ pc' = "keyed"
    /\ UNCHANGED <<uploadVars, call_name, call_key2, first_run, entry, files, written, output_format,
                   generated_at, sharkVars, groupVars>>

\* _normalize_shark_name(key): the key canonicalized once more
CanonicalizeKey ==
    /\ pc = "keyed"
    /\ call_key2' = _normalize_shark_name(call_key)
    /\ pc' = "rekeyed"
    /\ UNCHANGED <<uploadVars, call_name, call_key, first_run, entry, files, written, output_format,
                   generated_at, sharkVars, groupVars>>

CanonNext == Canonicalize \/ CanonicalizeKey

CanonSpec == CanonInit /\ [][CanonNext]_vars

\* ------------------------------------------------------------------------
\* The Shark Resolver: what the claims speak of
\* ------------------------------------------------------------------------

\* build_sharks has returned its list
ResolverDone == entry \in {"sharks", "scrap"} /\ pc \in {"built", "done"}

\* the shareholder artifacts of the directory that parse to an object with
\* a ticker and a list of rows
WellFormedPaths ==
    {p \in DOMAIN files :
        /\ EndsWith(p, ExtAcionistasJson)
        /\ files[p].kind = "object"
        /\ files[p].items_is_list
        /\ ArtifactTicker(p, files[p]) # <<>>}

\* the raw (trimmed) spelling of row j of artifact p
RowName(p, j) == Strip(StrOr(files[p].items[j].acionista, <<>>))

\* the rows that name a shareholder with a canonical key: where each one
\* is, its raw spelling, its canonical key and the ticker of its artifact
ShareholderRows ==
    LET Row(p, j) ==
            LET name == RowName(p, j)
            IN  [path |-> p, index |-> j, name |-> name,
                 key |-> _normalize_shark_name(name),
                 ticker |-> ArtifactTicker(p, files[p])]
        all == UNION {{Row(p, j) : j \in {i \in 1..Len(files[p].items) :
                                            files[p].items[i].isdict}}
                      : p \in WellFormedPaths}
    IN  {r \in all : r.key # <<>>}

SharkKeys(rows) == {r.key : r \in rows}

Spellings(rows, k) == {r.name : r \in {x \in rows : x.key = k}}

Occurrences(rows, name) == Cardinality({r \in rows : r.name = name})

TickersOf(rows, k) == {r.ticker : r \in {x \in rows : x.key = k}}

\* the most frequent spelling of key k, the smallest one among the most frequent
BestSpelling(rows, k) ==
    LET spellings == Spellings(rows, k)
        count == [s \in spellings |-> Occurrences(rows, s)]
    IN  CHOOSE s \in spellings :
            \A t \in spellings :
                \/ count[s] > count[t]
                \/ count[s] = count[t] /\ StrLeq(s, t)

\* ------------------------------------------------------------------------
\* Claims
\* ------------------------------------------------------------------------

\* C1: for every canonical key the emitted shark_name is the raw (trimmed)
\* spelling with the highest occurrence count among the rows of that key,
\* the lexicographically smallest one when several share the highest count.
C1_DisplayName ==
    ResolverDone =>
        LET rows == ShareholderRows
        IN  /\ Len(sharks) = Cardinality(SharkKeys(rows))
            /\ \A k \in SharkKeys(rows) :
                  \E i \in 1..Len(sharks) :
                     /\ sharks[i].items = SortedStrs(TickersOf(rows, k))
                     /\ sharks[i].shark_name = BestSpelling(rows, k)

\* C1 witness: a key with two spellings whose display name is the more
\* frequent spelling although the other one is lexicographically smaller.
C1_Witness ==
    /\ ResolverDone
    /\ LET rows == ShareholderRows
       IN  \E k \in SharkKeys(rows) :
           \E s \in Spellings(rows, k), t \in Spellings(rows, k) :
              /\ StrLess(t, s)
              /\ Occurrences(rows, s) > Occurrences(rows, t)
              /\ \E i \in 1..Len(sharks) : sharks[i].shark_name = s

\* the run of sharks.py on the directory of the worked example
ExampleRun ==
    /\ entry = "sharks"
    /\ (<<"c">> \o ExtAcionistasJson) \in DOMAIN files
    /\ pc \in {"built", "done"}

\* C2 as the spec states it: the rows (ACME Corp, A), (ACME CORP, B),
\* (ACME, A), (Beta Ltd, C) give the sharks (ACME Corp, 2, [A, B]) and
\* (Beta, 1, [C]), in this order.
C2_ExampleAsStated ==
    ExampleRun =>
        sharks = << [shark_name |-> <<"A", "C", "M", "E", " ", "C", "o", "r", "p">>,
                     quantity |-> 2, items |-> << <<"A">>, <<"B">> >>],
                    [shark_name |-> <<"B", "e", "t", "a">>,
                     quantity |-> 1, items |-> << <<"C">> >>] >>

\* C2 amended: the same rows give the sharks (ACME, 2, [A, B]) and
\* (Beta Ltd, 1, [C]), in this order: the three spellings of the key acme
\* occur once each, so the smallest one is displayed, and a display name is
\* a raw spelling, never a canonical key.
C2_Example ==
    ExampleRun =>
        sharks = << [shark_name |-> <<"A", "C", "M", "E">>,
                     quantity |-> 2, items |-> << <<"A">>, <<"B">> >>],
                    [shark_name |-> <<"B", "e", "t", "a", " ", "L", "t", "d">>,
                     quantity |-> 1, items |-> << <<"C">> >>] >>

\* C2 witness: build_sharks has returned on the directory of the example.
C2_Witness == ExampleRun /\ pc = "built" /\ Len(sharks) = 2

\* C3: the returned list is sorted by quantity descending and, among equal
\* quantities, by shark_name ascending.
C3_Sorted ==
    ResolverDone =>
        \A i \in 1..(Len(sharks) - 1) :
            \/ sharks[i].quantity > sharks[i + 1].quantity
            \/ /\ sharks[i].quantity = sharks[i + 1].quantity
               /\ StrLeq(sharks[i].shark_name, sharks[i + 1].shark_name)

\* C3 witness: two sharks of different quantity that the sort had to swap.
C3_Witness ==
    /\ ResolverDone
    /\ Len(sharks) = 2
    /\ sharks[1].quantity > sharks[2].quantity
    /\ sharks # EmitSharks(accionistas_map, display_name_counts)

\* C4: a key that appears in several rows of one ticker's artifact has that
\* ticker once in its ticker set, and each of those rows adds 1 to the
\* count of its raw spelling.
C4_SetSemantics ==
    ResolverDone =>
        LET rows == ShareholderRows
        IN  \A k \in SharkKeys(rows) :
                LET tickers == TickersOf(rows, k)
                IN  /\ DictGet(accionistas_map, k, {}) = tickers
                    /\ \E i \in 1..Len(sharks) :
                          /\ sharks[i].items = SortedStrs(tickers)
                          /\ sharks[i].quantity = Cardinality(tickers)
                    /\ \A s \in Spellings(rows, k) :
                          DictGet(DictGet(display_name_counts, k, <<>>), s, 0)
                              = Occurrences(rows, s)

\* C4 witness: one spelling in two rows of the same artifact: the shark has
\* one ticker and the spelling a count of two.
C4_Witness ==
    /\ ResolverDone
    /\ LET rows == ShareholderRows
       IN  \E r1 \in rows, r2 \in rows :
              /\ r1.path = r2.path
              /\ r1.index # r2.index
              /\ r1.name = r2.name
              /\ Cardinality(TickersOf(rows, r1.key)) = 1
              /\ Occurrences(rows, r1.name) = 2

\* C5: build_sharks completes normally on any set of shareholder artifacts
\* and returns the sharks of the well-formed ones: an artifact that does
\* not parse or has the wrong shape is passed over by itself.
C5_FailureIsolation ==
    /\ pc # "raised"
    /\ ResolverDone =>
          LET rows == ShareholderRows
          IN  /\ Len(sharks) = Cardinality(SharkKeys(rows))
              /\ \A k \in SharkKeys(rows) :
                    \E i \in 1..Len(sharks) :
                       sharks[i].items = SortedStrs(TickersOf(rows, k))

\* the ticker the file name of artifact p spells: <lower(T)>.acionistas.json
NamedTicker(p) == Upper(SubSeq(p, 1, Len(p) - Len(ExtAcionistasJson)))

\* C15: an artifact of ticker T stored under <lower(T)>.acionistas.json,
\* with T in its ticker field or without the field, is read as an artifact
\* of T: every row of it that has a canonical key is attributed to T.
C15_TickerRecovery ==
    ResolverDone =>
        \A p \in DOMAIN files :
            (/\ EndsWith(p, ExtAcionistasJson)
             /\ files[p].kind = "object"
             /\ files[p].items_is_list
             /\ files[p].ticker \in {None, NamedTicker(p)}) =>
                /\ ArtifactTicker(p, files[p]) = NamedTicker(p)
                /\ \A j \in 1..Len(files[p].items) :
                      LET k == _normalize_shark_name(RowName(p, j))
                      IN  (files[p].items[j].isdict /\ k # <<>>) =>
                              NamedTicker(p) \in DictGet(accionistas_map, k, {})

\* C20: every shark has a ticker list that is not empty and strictly
\* ascending, and a quantity that is the length of the list; it stands for
\* rows with a canonical key: its name is the raw spelling of such a row and
\* each of its tickers the ticker of such a row of its key.  Rows with an
\* empty name or key and artifacts without rows give no shark.
C20_WellFormed ==
    ResolverDone =>
        LET rows == ShareholderRows
        IN  /\ Len(sharks) = Cardinality(SharkKeys(rows))
            /\ \A i \in 1..Len(sharks) :
                  LET tickers == sharks[i].items
                  IN  /\ tickers # <<>>
                      /\ \A j \in 1..Len(tickers) : \A k \in 1..Len(tickers) :
                            j < k => StrLess(tickers[j], tickers[k])
                      /\ sharks[i].quantity = Len(tickers)
                      /\ sharks[i].quantity >= 1
                      /\ \E r \in rows :
                            /\ r.name = sharks[i].shark_name
                            /\ \A j \in 1..Len(tickers) :
                                  \E x \in rows : x.key = r.key /\ x.ticker = tickers[j]

\* C20 witness: a directory with an artifact of zero rows and an artifact
\* with a row without name, a row whose name has no canonical key and a row
\* of a shareholder: one shark of quantity 1.
C20_Witness ==
    /\ ResolverDone
    /\ \E p \in WellFormedPaths : files[p].items = <<>>
    /\ \E p \in WellFormedPaths :
          /\ \E j \in 1..Len(files[p].items) :
                files[p].items[j].isdict /\ RowName(p, j) = <<>>
          /\ \E j \in 1..Len(files[p].items) :
                /\ files[p].items[j].isdict
                /\ RowName(p, j) # <<>>
                /\ _normalize_shark_name(RowName(p, j)) = <<>>
    /\ Len(sharks) = 1
    /\ sharks[1].quantity = 1

\* C23: no two sharks of one result have the same shark_name, so the sort
\* key (-quantity, shark_name) of each shark is strictly below that of the
\* next: the order of the result leaves nothing to the scan order.
C23_UniqueNames ==
    ResolverDone =>
        /\ \A i \in 1..Len(sharks) : \A j \in 1..Len(sharks) :
              i # j => sharks[i].shark_name # sharks[j].shark_name
        /\ \A i \in 1..(Len(sharks) - 1) :
              IntStrLess(SharkKey(sharks[i]), SharkKey(sharks[i + 1]))

\* C23 witness: two sharks of the same quantity, which their names order,
\* one of them a shareholder written in two spellings.
C23_Witness ==
    /\ ResolverDone
    /\ Len(sharks) = 2
    /\ sharks[1].quantity = sharks[2].quantity
    /\ StrLess(sharks[1].shark_name, sharks[2].shark_name)
    /\ LET rows == ShareholderRows
       IN  \E k \in SharkKeys(rows) : Cardinality(Spellings(rows, k)) = 2

\* ------------------------------------------------------------------------
\* The Grouper: what the claims speak of
\* ------------------------------------------------------------------------

PipelineRun == entry \in {"scrap", "main"}

\* every bucket has been diverted or written
BucketsDone == PipelineRun /\ pc \notin {"group", "buckets"}

Blank(x) == x = None \/ \A i \in 1..Len(x) : x[i] = " "

\* the ticker of a record trimmed and upper-cased, UNKNOWN when it is
\* missing, null, empty or whitespace
ClaimTicker(r) == IF Blank(r.ticker) THEN TickerUnknown ELSE Upper(Strip(r.ticker))

\* the source of a record trimmed and lower-cased, data when it is missing,
\* null, empty or whitespace
ClaimSource(r) == IF Blank(r.source) THEN SrcData ELSE Lower(Strip(r.source))

ClaimKey(r) == <<ClaimTicker(r), ClaimSource(r)>>

\* the key of each record the providers may return
KeyOf == [r \in Records \cup DottedRecords |-> ClaimKey(r)]

\* the payload a written text holds
PayloadOf(text) == IF text.kind = "markdown" THEN text.rendering ELSE text

\* the buckets the run produced: a per-ticker artifact written, or an entry
\* of one of the two wide maps
BucketIds ==
    {<<"ticker", i>> : i \in {j \in 1..Len(written) :
                                PayloadOf(written[j][2]).kind = "object"}}
        \cup {<<"volume", i>> : i \in 1..Len(volume_map)}
        \cup {<<"magic_formula", i>> : i \in 1..Len(magic_formula_map)}

IsWide(id) == id[1] # "ticker"

\* the (ticker, source) key a bucket is filed under
BucketKey(id) ==
    CASE id[1] = "ticker" ->
            <<PayloadOf(written[id[2]][2]).ticker, PayloadOf(written[id[2]][2]).source>>
      [] id[1] = "volume" -> <<volume_map[id[2]][1], SrcVolume>>
      [] OTHER -> <<magic_formula_map[id[2]][1], SrcMagicFormula>>

\* the records of a bucket, in the order of its list
BucketItems(id) ==
    CASE id[1] = "ticker" -> PayloadOf(written[id[2]][2]).items
      [] id[1] = "volume" -> volume_map[id[2]][2].items
      [] OTHER -> magic_formula_map[id[2]][2].items

\* the bucket's payload exposes a list under items (else it is the record)
BucketWrapped(id) ==
    CASE id[1] = "ticker" -> PayloadOf(written[id[2]][2]).items_is_list
      [] id[1] = "volume" -> volume_map[id[2]][2].wrapped
      [] OTHER -> magic_formula_map[id[2]][2].wrapped

\* the records of the input that belong under key k, in input order
InputOf(k) == SelectSeq(items, LAMBDA r : KeyOf[r] = k)

\* every key of the input has a bucket
EveryKeyFiled == \A i \in 1..Len(items) : \E id \in BucketIds : BucketKey(id) = KeyOf[items[i]]

\* C6 as the spec states it: every bucket, per-ticker or wide, with exactly
\* one record has the record itself as payload, and with more than one
\* record a wrapper with the list under items.
C6_ShapeAsStated ==
    BucketsDone =>
        \A id \in BucketIds :
            /\ Len(InputOf(BucketKey(id))) = 1 => ~BucketWrapped(id)
            /\ Len(InputOf(BucketKey(id))) > 1 => BucketWrapped(id)

\* C6 amended: a bucket of a wide map (volume, magic_formula) with exactly
\* one record has the record itself as payload and with more than one a
\* wrapper with the list under items; a per-ticker artifact always has the
\* list under items, for a single record too.
C6_Shape ==
    BucketsDone =>
        /\ EveryKeyFiled
        /\ \A id \in BucketIds :
              LET n == Len(InputOf(BucketKey(id)))
              IN  /\ Len(BucketItems(id)) = n
                  /\ IsWide(id) /\ n = 1 => ~BucketWrapped(id)
                  /\ IsWide(id) /\ n > 1 => BucketWrapped(id)
                  /\ ~IsWide(id) => BucketWrapped(id)

\* C6 witness: a per-ticker artifact of one record, wrapped, next to a
\* wide bucket of several records.
C6_Witness ==
    /\ BucketsDone
    /\ \E id \in BucketIds : ~IsWide(id) /\ Len(BucketItems(id)) = 1 /\ BucketWrapped(id)
    /\ \E id \in BucketIds : IsWide(id) /\ Len(BucketItems(id)) > 1 /\ BucketWrapped(id)

\* the places <<bucket, index>> of the records in the buckets
BucketSlots == UNION {{<<id, j>> : j \in 1..Len(BucketItems(id))} : id \in BucketIds}

\* C7: grouping is a partition: every input record is in exactly one
\* bucket, as often as it is in the input, and the buckets hold as many
\* records as the input.
C7_Partition ==
    BucketsDone =>
        /\ Cardinality(BucketSlots) = Len(items)
        /\ \A i \in 1..Len(items) :
              /\ Cardinality({id \in BucketIds :
                                \E j \in 1..Len(BucketItems(id)) :
                                    BucketItems(id)[j] = items[i]}) = 1
              /\ Cardinality({sl \in BucketSlots : BucketItems(sl[1])[sl[2]] = items[i]})
                    = Cardinality({j \in 1..Len(items) : items[j] = items[i]})

\* C7 witness: three records, two of them in one bucket, and a wide bucket.
C7_Witness ==
    /\ BucketsDone
    /\ Len(items) = 3
    /\ Cardinality(BucketIds) = 2
    /\ \E id \in BucketIds : IsWide(id)

IsWideSource(src) == src = SrcVolume \/ src = SrcMagicFormula

\* C8: a record whose normalized source is volume or magic_formula is in
\* no per-ticker artifact; it is in the wide map of its source under its
\* normalized ticker, and the wide maps hold no record of another source.
C8_Diversion ==
    PipelineRun =>
        /\ \A id \in BucketIds : \A j \in 1..Len(BucketItems(id)) :
              LET r == BucketItems(id)[j]
              IN  /\ ~IsWide(id) => ~IsWideSource(KeyOf[r][2])
                  /\ IsWide(id) => /\ KeyOf[r][2] = BucketKey(id)[2]
                                   /\ KeyOf[r][1] = BucketKey(id)[1]
                                   /\ KeyOf[r][2] = (IF id[1] = "volume" THEN SrcVolume
                                                        ELSE SrcMagicFormula)
        /\ BucketsDone =>
              \A i \in 1..Len(items) :
                 IsWideSource(KeyOf[items[i]][2]) =>
                    \E id \in BucketIds :
                       /\ IsWide(id)
                       /\ BucketKey(id) = KeyOf[items[i]]
                       /\ \E j \in 1..Len(BucketItems(id)) : BucketItems(id)[j] = items[i]

\* C8 witness: a record whose raw source is not spelled volume but
\* normalizes to it sits in the volume map, next to a per-ticker artifact.
C8_Witness ==
    /\ BucketsDone
    /\ \E id \in BucketIds : ~IsWide(id)
    /\ \E i \in 1..Len(volume_map) :
       \E j \in 1..Len(volume_map[i][2].items) :
          volume_map[i][2].items[j].source # SrcVolume

\* C9: every record is keyed by its ticker trimmed and upper-cased and its
\* source trimmed and lower-cased, UNKNOWN and data standing in for a
\* missing, null, empty or whitespace field: no key has an empty part.
C9_KeyNormalization ==
    PipelineRun =>
        /\ \A i \in 1..Len(by_key) :
              /\ by_key[i][1][1] # <<>>
              /\ by_key[i][1][2] # <<>>
              /\ \A j \in 1..Len(by_key[i][2]) : by_key[i][1] = KeyOf[by_key[i][2][j]]
        /\ \A id \in BucketIds :
              /\ BucketKey(id)[1] # <<>>
              /\ BucketKey(id)[2] # <<>>
              /\ \A j \in 1..Len(BucketItems(id)) : BucketKey(id) = KeyOf[BucketItems(id)[j]]
        /\ \A i \in 1..(cursor - 1) : DictHas(by_key, KeyOf[items[i]])

\* C9 witness: the bucket (UNKNOWN, data) holds a record with a null field
\* and one with a whitespace field, and another bucket a trimmed ticker.
C9_Witness ==
    /\ PipelineRun
    /\ \E r \in SeqToSet(DictGet(by_key, <<TickerUnknown, SrcData>>, <<>>)) : r.ticker = None
    /\ \E r \in SeqToSet(DictGet(by_key, <<TickerUnknown, SrcData>>, <<>>)) : r.ticker = <<" ">>
    /\ \E i \in 1..Len(by_key) : \E r \in SeqToSet(by_key[i][2]) :
          ~Blank(r.ticker) /\ r.ticker # by_key[i][1][1]

\* C10: two records of one (ticker, source) bucket are in the bucket's list
\* in the order they have in the input.
C10_BucketOrder ==
    PipelineRun =>
        /\ \A i \in 1..Len(by_key) :
              by_key[i][2] = SelectSeq(SubSeq(items, 1, cursor - 1),
                                       LAMBDA r : KeyOf[r] = by_key[i][1])
        /\ \A id \in BucketIds : BucketItems(id) = InputOf(BucketKey(id))

\* C10 witness: a bucket written with two different records.
C10_Witness ==
    /\ BucketsDone
    /\ \E id \in BucketIds :
          /\ Len(BucketItems(id)) > 1
          /\ BucketItems(id)[1] # BucketItems(id)[2]

\* the write_text calls of per-ticker artifacts, in the order of the calls
TickerWrites == SelectSeq(written, LAMBDA w : PayloadOf(w[2]).kind = "object")

\* the key of the per-ticker artifact of a write_text call
WriteKey(w) == <<PayloadOf(w[2]).ticker, PayloadOf(w[2]).source>>

\* C11: the per-ticker artifacts are written in strictly ascending order of
\* their (ticker, source) key, and the entries of the volume map and of the
\* magic_formula map are in strictly ascending ticker order, as they are in
\* the payloads written, whatever the order of the input records.
C11_WriteOrder ==
    PipelineRun =>
        /\ \A i \in 1..Len(TickerWrites) : \A j \in 1..Len(TickerWrites) :
              i < j => StrPairLess(WriteKey(TickerWrites[i]), WriteKey(TickerWrites[j]))
        /\ \A map \in {volume_map, magic_formula_map} :
              \A i \in 1..Len(map) : \A j \in 1..Len(map) :
                 i < j => StrLess(map[i][1], map[j][1])
        /\ \A i \in 1..Len(written) :
              PayloadOf(written[i][2]).kind = "wide" =>
                 LET map == PayloadOf(written[i][2]).items
                 IN  \A j \in 1..Len(map) : \A k \in 1..Len(map) :
                        j < k => StrLess(map[j][1], map[k][1])

\* C11 witness: a record of a smaller key comes after a record of a larger
\* key in the input, both are written to per-ticker artifacts, and a wide
\* artifact was written too.
C11_Witness ==
    /\ BucketsDone
    /\ Len(TickerWrites) >= 2
    /\ \E i \in 1..Len(items) : \E j \in 1..Len(items) :
          /\ i < j
          /\ ~IsWideSource(KeyOf[items[i]][2])
          /\ ~IsWideSource(KeyOf[items[j]][2])
          /\ StrPairLess(KeyOf[items[j]], KeyOf[items[i]])
    /\ \E i \in 1..Len(written) : PayloadOf(written[i][2]).kind = "wide"

\* ------------------------------------------------------------------------
\* The Name Canonicalizer: what the claims speak of
\* ------------------------------------------------------------------------

Keyed == entry = "canonicalize" /\ pc \in {"keyed", "rekeyed"}

\* the name lower-cased, without its quote characters
Unquoted(name) ==
    LET s == IF name = None THEN <<>> ELSE Lower(name)
    IN  SelectSeq(s, LAMBDA c : c \notin QuoteChars)

\* the places where a maximal run of [a-z0-9] starts in s
TokenStarts(s) ==
    {i \in 1..Len(s) : s[i] \in AlnumLower /\ (i = 1 \/ s[i - 1] \notin AlnumLower)}

\* the maximal run of [a-z0-9] that starts at place i of s
TokenAt(s, i) ==
    SubSeq(s, i, CHOOSE j \in i..Len(s) :
                    /\ \A k \in i..j : s[k] \in AlnumLower
                    /\ (j = Len(s) \/ s[j + 1] \notin AlnumLower))

\* every token of the name is a corporate suffix, and there is a token
AllStopwords(name) ==
    LET s == Unquoted(name)
    IN  /\ TokenStarts(s) # {}
        /\ \A i \in TokenStarts(s) : TokenAt(s, i) \in _SUFFIX_STOPWORDS

\* the first token of the name
FirstToken(name) ==
    LET s == Unquoted(name)
    IN  TokenAt(s, CHOOSE i \in TokenStarts(s) : \A j \in TokenStarts(s) : i <= j)

\* the name has a character of [a-z0-9] after lower-casing
HasAlnum(name) ==
    /\ name # None
    /\ \E i \in 1..Len(name) : Lower(name)[i] \in AlnumLower

\* C12: canonicalizing a canonical key gives the key back, also for a name
\* whose tokens are all corporate suffixes.
C12_Idempotent ==
    (entry = "canonicalize" /\ pc = "rekeyed") => call_key2 = call_key

\* C12 witness: a name of two corporate suffixes was canonicalized to its
\* first token, and the token once more.
C12_Witness ==
    /\ entry = "canonicalize"
    /\ pc = "rekeyed"
    /\ AllStopwords(call_name)
    /\ Cardinality(TokenStarts(Unquoted(call_name))) = 2
    /\ call_key2 \in _SUFFIX_STOPWORDS

\* C13: the names Banco Itau S/A (with an acute u), BANCO ITAU SA and
\* banco   itau, s.a. have the same canonical key, the one of the name with
\* the plain suffix SA.
C13_SameKey ==
    (Keyed /\ call_name \in {NameBancoItauSA, NameBANCOITAUSA, NameBancoItauSa}) =>
        call_key = <<"b", "a", "n", "c", "o", " ", "i", "t", "a", "u">>

\* C14: a name whose tokens are all corporate suffixes has its first token
\* as key; the key is empty exactly for the names without a character of
\* [a-z0-9] after lower-casing.
C14_Fallback ==
    Keyed =>
        /\ AllStopwords(call_name) => call_key = FirstToken(call_name)
        /\ call_key = <<>> <=> ~HasAlnum(call_name)

\* C14 witness: the name Ltda has the key ltda.
C14_Witness ==
    /\ Keyed
    /\ call_name = NameLtda
    /\ call_key = <<"l", "t", "d", "a">>

\* the stopwords with a character outside [a-z0-9]
LatentStopwords == {<<"l", ".", "p">>, <<"s", "/", "a">>}

\* lines 28-40: the tokens of the name
NameTokens(name) ==
    LET s0 == Lower(Strip(StrOr(name, <<>>)))
        s1 == Strip(CollapseSpaces(SubNonAlnum(StripQuotes(s0))))
    IN  IF s0 = <<>> \/ s1 = <<>> THEN <<>>
        ELSE SelectSeq(SplitSpace(s1, <<>>), LAMBDA t : t # <<>>)

\* lines 42-49 with the stopwords of gone taken out of _SUFFIX_STOPWORDS
KeyWithout(name, gone) ==
    LET tokens == NameTokens(name)
        filtered == SelectSeq(tokens, LAMBDA t : t \notin _SUFFIX_STOPWORDS \ gone)
    IN  IF tokens = <<>> THEN <<>>
        ELSE IF filtered = <<>> THEN tokens[1]
        ELSE JoinSpace(filtered)

\* the words of the name as written: lower-cased, split at white space
WrittenWords(name) ==
    SeqToSet(SplitSpace(Lower(Strip(StrOr(name, <<>>))), <<>>))

\* C24: every token of a name has characters of [a-z0-9] only, so none is
\* l.p or s/a, and the name has the same key with the two taken out of the
\* stopwords.
C24_LatentStopwords ==
    Keyed =>
        LET tokens == NameTokens(call_name)
        IN  /\ \A i \in 1..Len(tokens) :
                  /\ tokens[i] # <<>>
                  /\ \A j \in 1..Len(tokens[i]) : tokens[i][j] \in AlnumLower
            /\ \A i \in 1..Len(tokens) : tokens[i] \notin LatentStopwords
            /\ KeyWithout(call_name, {}) = call_key
            /\ KeyWithout(call_name, LatentStopwords) = call_key

\* C24 witness: a name that has s/a or l.p as a word was canonicalized to
\* a key that still has the letters of the word.
C24_Witness ==
    /\ Keyed
    /\ WrittenWords(call_name) \cap LatentStopwords # {}
    /\ Len(NameTokens(call_name)) >= 3
    /\ Len(call_key) > 2
    /\ call_key[Len(call_key)] \in {"a", "p"}
    /\ call_key[Len(call_key) - 1] = " "

\* ------------------------------------------------------------------------
\* The second run: what the claims speak of
\* ------------------------------------------------------------------------

SecondRunDone == PipelineRun /\ generated_at = 2 /\ pc \in {"done", "raised"}

\* the payload without its generated_at field
UntimedPayload(payload) ==
    IF payload.kind \in {"object", "wide"} THEN [payload EXCEPT !.generated_at = 0]
    ELSE payload

\* the text of a file apart from the timestamp it carries
Untimed(text) ==
    IF text.kind = "markdown" THEN MarkdownText(UntimedPayload(text.rendering))
    ELSE UntimedPayload(text)

\* C16: after the second run on the same records into the same directory
\* the directory holds the same files as after the first run, with the
\* same contents apart from generated_at.
C16_Rerun ==
    SecondRunDone =>
        /\ DOMAIN files = DOMAIN first_run
        /\ \A p \in DOMAIN files : Untimed(files[p]) = Untimed(first_run[p])

\* C16 witness: the second run has written a per-ticker artifact, a wide
\* artifact and sharks.json again, each with the new timestamp.
C16_Witness ==
    /\ SecondRunDone
    /\ pc = "done"
    /\ \E i \in 1..Len(written) : written[i][1] = SharksJson
    /\ \E i \in 1..Len(written) : PayloadOf(written[i][2]).kind = "wide"
    /\ \E p \in DOMAIN files :
          /\ files[p].kind = "object"
          /\ files[p].generated_at = 2
          /\ first_run[p].generated_at = 1

\* ------------------------------------------------------------------------
\* The output format: what the claims speak of
\* ------------------------------------------------------------------------

\* the run began on an empty directory: no artifact of an earlier use
StartedEmpty == \A p \in DOMAIN files : p \notin UNION {DOMAIN d : d \in LeftoverDirs}

\* the shareholder buckets of the run in ascending key order
ShareholderBuckets == SelectSeq(SortedDictItems(by_key), LAMBDA e : e[1][2] = SrcAcionistas)

\* the rows of the buckets scanned one bucket after the other
RECURSIVE ScanBuckets(_, _)
ScanBuckets(maps, buckets) ==
    IF buckets = <<>> THEN maps
    ELSE ScanBuckets(ScanRows(maps, Head(buckets)[1][1], Head(buckets)[2]), Tail(buckets))

\* the shark ranking of the shareholder records of the run
RecordSharks ==
    LET maps == ScanBuckets([am |-> <<>>, dnc |-> <<>>], ShareholderBuckets)
    IN  SortSharks(EmitSharks(maps.am, maps.dnc))

\* C17: a run of scrap.py on an empty directory produces the buckets of its
\* records and the shark ranking of its shareholder records, the same for
\* output_format md as for output_format json.
C17_FormatIndependent ==
    (entry = "scrap" /\ pc = "done" /\ StartedEmpty) =>
        /\ EveryKeyFiled
        /\ \A id \in BucketIds : BucketItems(id) = InputOf(BucketKey(id))
        /\ sharks = RecordSharks
        /\ RecordSharks # <<>> =>
              SharksJson \in DOMAIN files /\ files[SharksJson] = SharksText(RecordSharks)

\* ------------------------------------------------------------------------
\* The Aggregate Writer: what the claims speak of
\* ------------------------------------------------------------------------

\* the payload carries the timestamp of the run, a source and the structure
Enveloped(payload) ==
    /\ {"generated_at", "source", "items"} \subseteq DOMAIN payload
    /\ payload.generated_at = generated_at
    /\ payload.source # <<>>
    /\ payload.source # None

\* C18 as the spec states it: every artifact written, the shark ranking
\* too, carries the timestamp of the run, a source and the structure.
C18_EnvelopeAsStated ==
    PipelineRun => \A i \in 1..Len(written) : Enveloped(PayloadOf(written[i][2]))

\* C18 amended: every per-ticker artifact, the volume artifact and the
\* magic_formula artifact carry the timestamp of the run, their source and
\* the structure under items; sharks.json is the bare list of sharks, with
\* no timestamp and no source.
C18_Envelope ==
    PipelineRun =>
        \A i \in 1..Len(written) :
            LET path == written[i][1]
                payload == PayloadOf(written[i][2])
            IN  IF path = SharksJson
                THEN /\ DOMAIN payload = {"kind", "sharks"}
                     /\ payload.sharks = sharks
                ELSE /\ Enveloped(payload)
                     /\ path = WidePath(SrcVolume, output_format) =>
                           payload.source = SrcVolume /\ payload.items = volume_map
                     /\ path = WidePath(SrcMagicFormula, output_format) =>
                           payload.source = SrcMagicFormula /\ payload.items = magic_formula_map
                     /\ payload.kind = "object" =>
                           payload.items = InputOf(<<payload.ticker, payload.source>>)

\* C18 witness: a run has written a per-ticker artifact, a wide artifact
\* and the shark ranking.
C18_Witness ==
    /\ PipelineRun
    /\ pc = "done"
    /\ \E i \in 1..Len(written) : PayloadOf(written[i][2]).kind = "object"
    /\ \E i \in 1..Len(written) : PayloadOf(written[i][2]).kind = "wide"
    /\ \E i \in 1..Len(written) : written[i][1] = SharksJson

\* C19: the per-ticker artifacts of a run, one for each non-wide bucket,
\* are written to paths that differ from each other: no artifact of the run
\* is overwritten by another one.
C19_OwnPath ==
    PipelineRun =>
        \A i \in 1..Len(TickerWrites) : \A j \in 1..Len(TickerWrites) :
            i # j => TickerWrites[i][1] # TickerWrites[j][1]

\* ------------------------------------------------------------------------
\* Two runs into one directory: what the claims speak of
\* ------------------------------------------------------------------------

\* what a run of scrap.py on the records of this run alone, into an empty
\* directory, leaves as its shark ranking: that of its shareholder records
\* when it writes them as JSON, none when it writes markdown
SharksAlone == IF output_format = "json" THEN RecordSharks ELSE <<>>

\* C21: after scrap.py has run on records R1 and then on records R2 into
\* the same directory, empty at first, the directory holds the sharks.json
\* of a run on R2 alone into an empty directory, and none when that run
\* writes none.
C21_CurrentRunOnly ==
    (entry = "scrap" /\ generated_at = 2 /\ pc = "done" /\ StartedEmpty) =>
        IF SharksAlone = <<>> THEN SharksJson \notin DOMAIN files
        ELSE /\ SharksJson \in DOMAIN files
             /\ files[SharksJson] = SharksText(SharksAlone)

\* ------------------------------------------------------------------------
\* The order of the artifacts and of their rows: what the claims speak of
\* ------------------------------------------------------------------------

\* sharks.py has run on the rearranged directory
RearrangedRun == entry = "sharks" /\ generated_at = 1

\* the list the run on the directory before its rearrangement returned:
\* the ranking it wrote, the empty list when it wrote none
FirstSharks ==
    IF SharksJson \in DOMAIN first_run THEN first_run[SharksJson].sharks ELSE <<>>

\* C22: build_sharks returns the same list whatever the order in which the
\* artifacts are scanned and whatever the order of the rows inside each
\* artifact; where it raises on a directory it raises on every
\* rearrangement of it.
C22_OrderIndependent ==
    RearrangedRun =>
        /\ pc \in {"built", "done"} => sharks = FirstSharks
        /\ pc = "raised" =>
              /\ \E p \in DOMAIN first_run : first_run[p].kind = "nonobject"
              /\ SharksJson \notin DOMAIN first_run
        /\ (\E p \in DOMAIN first_run : first_run[p].kind = "nonobject") =>
              pc \notin {"built", "done"}

\* C22 witness: two artifacts scanned in the other order, the rows of one
\* of them in another order, and two spellings of one shareholder with one
\* row each, the one seen first being another than before; the ranking has
\* two sharks.
C22_Witness ==
    /\ RearrangedRun
    /\ pc = "built"
    /\ Len(sharks) = 2
    /\ \E p \in ArtifactPaths(first_run) : \E q \in ArtifactPaths(first_run) :
          /\ StrLess(p, q)
          /\ StrLess(UpperStemPath(q), p)
          /\ UpperStemPath(q) \in DOMAIN files
          /\ p \in DOMAIN files
          /\ RowCount(first_run[p]) >= 2
          /\ files[p].items # first_run[p].items
          /\ first_run[p].items[1].acionista = <<"A", "b">>
          /\ RowCount(files[UpperStemPath(q)]) >= 1
          /\ files[UpperStemPath(q)].items[1].acionista = <<"A", "B">>
          /\ \A i \in 1..Len(first_run[p].items) :
                first_run[p].items[i].acionista # <<"A", "B">>

\* ------------------------------------------------------------------------
\* The uploader: what the claims speak of
\* ------------------------------------------------------------------------

\* no source gives a ticker: neither cfg.tickers, nor the key tickers of
\* config.yaml where cfg.tickers is None, nor the name of a file of the
\* outputs directory
NoTickerKnown ==
    /\ cfg.tickers = <<>>
    /\ cfg.tickers_given
       \/ config_data.kind # "dict"
       \/ config_data.tickers_kind # "list"
       \/ \A i \in 1..Len(config_data.tickers) : Blank(config_data.tickers[i])
    /\ \A p \in DOMAIN files : ~EndsWith(p, ExtJson) \/ InferTicker(p) = None

\* C25: the upsert into indicators_common, of one row, is the second upsert
\* of a run and follows an upsert into indicators that reported no error;
\* after an upsert that reported an error or raised there is no further
\* upsert; a dry run and a run without tickers execute no upsert.
C25_UploadSequencing ==
    entry = "upload" =>
        /\ Len(upserts) <= 2
        /\ upserts # <<>> => upserts[1].table = "indicators" /\ upserts[1].rows # <<>>
        /\ \A i \in 1..Len(upserts) :
              upserts[i].table = "indicators_common" =>
                  /\ i = 2
                  /\ upserts[1].outcome = "ok"
                  /\ Len(upserts[i].rows) = 1
        /\ (upserts # <<>> /\ upserts[1].outcome # "ok") => Len(upserts) = 1
        /\ cfg.dry_run => upserts = <<>>
        /\ NoTickerKnown => upserts = <<>>
        /\ pc = "done" /\ ~cfg.dry_run => Len(upserts) = 2

\* C25 witness: a run whose tickers come from the names of the output
\* files has upserted two rows into indicators and then the common row.
C25_Witness ==
    /\ entry = "upload"
    /\ pc = "done"
    /\ ~cfg.tickers_given
    /\ Len(upserts) = 2
    /\ Len(upserts[1].rows) = 2
    /\ upserts[1].outcome = "ok"
    /\ upserts[2].table = "indicators_common"
    /\ upserts[2].rows[1].data_sharks.kind = "sharks"

====
